---- MODULE Spec2Model ----
(***************************************************************************)
(* The pseudo-terminal session bridge of steppe (src-tauri/src/lib.rs):    *)
(* AppState, the four tauri commands async_create_shell,                   *)
(* async_write_to_pty, async_read_from_pty and async_resize_pty, the       *)
(* child-exit watcher thread, and the environment they talk to (the shell  *)
(* child and the kernel side of the PTY master).                           *)
(***************************************************************************)
EXTENDS Integers, Sequences, FiniteSets, TLC

(***************************************************************************)
(* Bounds of the model.                                                    *)
(***************************************************************************)
\* number of command tasks that may be in flight at the same time
NumTasks == 2
\* total number of bytes the PTY emits on the master side
MaxOut == 2
\* total number of bytes the writer accepts
MaxWritten == 4
\* total number of commands invoked
MaxCalls == 2

(***************************************************************************)
(* Program constants.                                                      *)
(***************************************************************************)
\* PtySize given to openpty in run()
InitRows == 24
InitCols == 80
\* capacity of BufReader::new (std's default buffer size)
BufCap == 8192

Tasks == 1..NumTasks
NoTask == 0

\* bytes the PTY may emit: 'h', and the two bytes of U+00E9 (C3 A9)
OutBytes == {104, 195, 169}
\* text chunks passed to write-to-pty: "h\n"
WriteData == {<<104, 10>>}
\* row / column counts passed to resize-pty
SizeArgs == {<<40, 120>>, <<0, 0>>}
\* exit codes of the shell
ExitCodes == {0, 7}

VARIABLES
    has_terminal,   \* AppState.has_terminal
    pty_lock,       \* holder of AppState.pty_pair's mutex (NoTask: free)
    writer_lock,    \* holder of AppState.writer's mutex
    reader_lock,    \* holder of AppState.reader's mutex
    pty_size,       \* size of the PTY master, <<rows, cols>>
    rbuf,           \* BufReader: the filled part of its internal buffer
    rpos,           \* BufReader: number of bytes of rbuf already consumed
    roff,           \* stream offset of rbuf[1] (number of bytes taken from the master before it)
    pending,        \* output waiting in the kernel on the PTY master
    produced,       \* number of bytes the PTY has emitted so far
    stream,         \* the bytes the PTY has emitted so far, in order
    delivered,      \* <<stream offset, byte>> of every byte returned by a read, in order
    written,        \* bytes received by the PTY master from the writer
    child,          \* per task: the shell it spawned ("none", "running", "exited")
    child_code,     \* per task: exit code of the shell it spawned
    watcher,        \* per task: whether the watcher thread of its shell was started
    spawned,        \* number of shells spawn_command has created so far
    created,        \* whether a create-shell command has returned Ok(())
    host,           \* "running", or "exited" once exit() was called
    host_code,      \* the code given to exit()
    pc,             \* per task: where its command is
    arg,            \* per task: argument of its command
    data,           \* per task: the local `data` of async_read_from_pty; in a write, the
                    \* part of the chunk that write_all has already sent
    ret,            \* per task: result of its last finished command
    calls           \* number of commands invoked so far

vars == <<has_terminal, pty_lock, writer_lock, reader_lock, pty_size,
          rbuf, rpos, roff, pending, produced, stream, delivered, written,
          child, child_code, watcher, spawned, created, host, host_code, pc, arg, data, ret, calls>>

sessionVars == <<has_terminal, pty_lock, writer_lock, reader_lock, pty_size>>
readerVars == <<rbuf, rpos, roff, pending, produced, stream, delivered>>
childVars == <<child, child_code, watcher, spawned>>
hostVars == <<host, host_code>>

(***************************************************************************)
(* std::str::from_utf8: the validity of a byte sequence as UTF-8.          *)
(***************************************************************************)
IsCont(b) == b >= 128 /\ b <= 191

\* number of bytes of the code point starting at s[i], 0 when it is not valid
\* or not complete
CharLen(s, i) ==
    LET b == s[i]
        n == Len(s) - i + 1
        c(k) == s[i + k]
    IN  IF b <= 127 THEN 1
        ELSE IF b >= 194 /\ b <= 223
             THEN IF n >= 2 /\ IsCont(c(1)) THEN 2 ELSE 0
        ELSE IF b >= 224 /\ b <= 239
             THEN IF /\ n >= 3
                     /\ IsCont(c(1))
                     /\ (b = 224 => c(1) >= 160)
                     /\ (b = 237 => c(1) <= 159)
                     /\ IsCont(c(2))
                  THEN 3 ELSE 0
        ELSE IF b >= 240 /\ b <= 244
             THEN IF /\ n >= 4
                     /\ IsCont(c(1))
                     /\ (b = 240 => c(1) >= 144)
                     /\ (b = 244 => c(1) <= 143)
                     /\ IsCont(c(2))
                     /\ IsCont(c(3))
                  THEN 4 ELSE 0
        ELSE 0

RECURSIVE ValidFrom(_, _)
ValidFrom(s, i) ==
    IF i > Len(s) THEN TRUE
    ELSE LET n == CharLen(s, i)
         IN  n > 0 /\ ValidFrom(s, i + n)

from_utf8(s) == ValidFrom(s, 1)

(***************************************************************************)
(* BufReader                                                               *)
(***************************************************************************)
\* the buffered bytes not yet consumed: buffer[pos..filled]
Buffered == SubSeq(rbuf, rpos + 1, Len(rbuf))

Min(a, b) == IF a < b THEN a ELSE b

\* consume that marks nothing as consumed
ConsumeNothing(amt) == rpos

\* BufReader::consume(amt): pos = min(pos + amt, filled)
Consume(amt) == Min(rpos + amt, Len(rbuf))

(***************************************************************************)
(* run(): the state managed by tauri before any command is served.         *)
(***************************************************************************)
Init ==
    /\ has_terminal = FALSE
    /\ pty_lock = NoTask
    /\ writer_lock = NoTask
    /\ reader_lock = NoTask
    /\ pty_size = <<InitRows, InitCols>>
    /\ rbuf = <<>>
    /\ rpos = 0
    /\ roff = 0
    /\ pending = <<>>
    /\ produced = 0
    /\ stream = <<>>
    /\ delivered = <<>>
    /\ written = <<>>
    /\ child = [t \in Tasks |-> "none"]
    /\ child_code = [t \in Tasks |-> 0]
    /\ watcher = [t \in Tasks |-> FALSE]
    /\ spawned = 0
    /\ created = FALSE
    /\ host = "running"
    /\ host_code = 0
    /\ pc = [t \in Tasks |-> "idle"]
    /\ arg = [t \in Tasks |-> <<>>]
    /\ data = [t \in Tasks |-> <<>>]
    /\ ret = [t \in Tasks |-> "none"]
    /\ calls = 0

Alive == host = "running"

\* a command returns: the task is idle again and `r` is its result
Return(t, r) ==
    /\ pc' = [pc EXCEPT ![t] = "idle"]
    /\ ret' = [ret EXCEPT ![t] = r]
    /\ arg' = [arg EXCEPT ![t] = <<>>]
    /\ data' = [data EXCEPT ![t] = <<>>]

Goto(t, l) ==
    /\ pc' = [pc EXCEPT ![t] = l]
    /\ UNCHANGED <<ret, arg, data>>

(***************************************************************************)
(* The presentation layer invokes a command.                               *)
(***************************************************************************)
Invoke(t, entry, a) ==
    /\ Alive
    /\ pc[t] = "idle"
    /\ calls < MaxCalls
    /\ calls' = calls + 1
    /\ pc' = [pc EXCEPT ![t] = entry]
    /\ arg' = [arg EXCEPT ![t] = a]
    /\ ret' = [ret EXCEPT ![t] = "none"]
    /\ UNCHANGED <<data, sessionVars, readerVars, written, childVars, hostVars, created>>

InvokeCreateShell(t) == Invoke(t, "cs_check", <<>>)

InvokeWrite(t) ==
    \E d \in WriteData :
        /\ Len(written) + Len(d) <= MaxWritten
        /\ Invoke(t, "wr_lock", d)

InvokeRead(t) == Invoke(t, "rd_lock", <<>>)

InvokeResize(t) == \E s \in SizeArgs : Invoke(t, "rs_lock", s)

(***************************************************************************)
(* async_create_shell                                                      *)
(***************************************************************************)
\* CreateCheck with the flag set as soon as it was found clear, before any
\* spawn was tried
CreateCheckEager(t) ==
    /\ Alive
    /\ pc[t] = "cs_check"
    /\ IF has_terminal
       THEN /\ Return(t, "cs_ok")
            /\ created' = TRUE
            /\ UNCHANGED has_terminal
       ELSE /\ has_terminal' = TRUE
            /\ \E shell_set \in BOOLEAN :
                   IF shell_set THEN Goto(t, "cs_lock") ELSE Return(t, "cs_err_shell")
            /\ UNCHANGED created
    /\ UNCHANGED <<calls, pty_lock, writer_lock, reader_lock, pty_size,
                   readerVars, written, childVars, hostVars>>

\* if state.has_terminal.load(Ordering::Acquire) { return Ok(()) } and
\* std::env::var("SHELL").map_err(..)?: the variable is set or it is not
CreateCheck(t) ==
    /\ Alive
    /\ pc[t] = "cs_check"
    /\ IF has_terminal
       THEN /\ Return(t, "cs_ok")
            /\ created' = TRUE
       ELSE /\ \E shell_set \in BOOLEAN :
                   IF shell_set THEN Goto(t, "cs_lock") ELSE Return(t, "cs_err_shell")
            /\ UNCHANGED created
    /\ UNCHANGED <<calls, sessionVars, readerVars, written, childVars, hostVars>>

\* state.pty_pair.lock().await
CreateLock(t) ==
    /\ Alive
    /\ pc[t] = "cs_lock"
    /\ pty_lock = NoTask
    /\ pty_lock' = t
    /\ Goto(t, "cs_spawn")
    /\ UNCHANGED <<calls, has_terminal, writer_lock, reader_lock, pty_size,
                   readerVars, written, childVars, hostVars, created>>

\* CreateSpawn with the guard kept: the PTY-pair lock is not released
CreateSpawnKeepLock(t) ==
    /\ Alive
    /\ pc[t] = "cs_spawn"
    /\ pty_lock = t
    /\ \E ok \in BOOLEAN :
        IF ok
        THEN /\ child' = [child EXCEPT ![t] = "running"]
             /\ watcher' = [watcher EXCEPT ![t] = TRUE]
             /\ spawned' = spawned + 1
             /\ Goto(t, "cs_store")
        ELSE /\ UNCHANGED <<child, watcher, spawned>>
             /\ Return(t, "cs_err_spawn")
    /\ UNCHANGED <<calls, sessionVars, readerVars, written, child_code, hostVars, created>>

\* .slave.spawn_command(cmd).map_err(..)?  The guard is a temporary of the
\* statement: the lock is released when the statement ends, on both paths.
\* On success thread::spawn starts the watcher of the child.
CreateSpawn(t) ==
    /\ Alive
    /\ pc[t] = "cs_spawn"
    /\ pty_lock = t
    /\ pty_lock' = NoTask
    /\ \E ok \in BOOLEAN :
        IF ok
        THEN /\ child' = [child EXCEPT ![t] = "running"]
             /\ watcher' = [watcher EXCEPT ![t] = TRUE]
             /\ spawned' = spawned + 1
             /\ Goto(t, "cs_store")
        ELSE /\ UNCHANGED <<child, watcher, spawned>>
             /\ Return(t, "cs_err_spawn")
    /\ UNCHANGED <<calls, has_terminal, writer_lock, reader_lock, pty_size,
                   readerVars, written, child_code, hostVars, created>>

\* CreateStore with the store of the flag forgotten
CreateStoreNoFlag(t) ==
    /\ Alive
    /\ pc[t] = "cs_store"
    /\ Return(t, "cs_ok")
    /\ created' = TRUE
    /\ UNCHANGED <<calls, sessionVars, readerVars, written, childVars, hostVars>>

\* state.has_terminal.store(true, Ordering::Release); Ok(())
CreateStore(t) ==
    /\ Alive
    /\ pc[t] = "cs_store"
    /\ has_terminal' = TRUE
    /\ Return(t, "cs_ok")
    /\ created' = TRUE
    /\ UNCHANGED <<calls, pty_lock, writer_lock, reader_lock, pty_size,
                   readerVars, written, childVars, hostVars>>

(***************************************************************************)
(* The shell child and its watcher thread.                                 *)
(***************************************************************************)
\* the shell terminates, for any reason, with some exit code
ChildExit(t) ==
    /\ Alive
    /\ child[t] = "running"
    /\ \E c \in ExitCodes :
        /\ child' = [child EXCEPT ![t] = "exited"]
        /\ child_code' = [child_code EXCEPT ![t] = c]
    /\ UNCHANGED <<calls, sessionVars, readerVars, written, watcher, spawned, hostVars, created,
                   pc, arg, data, ret>>

\* a watcher that ends the process only once no command holds a lock
WatcherExitWhenQuiet(t) ==
    /\ Alive
    /\ watcher[t]
    /\ child[t] = "exited"
    /\ pty_lock = NoTask
    /\ writer_lock = NoTask
    /\ reader_lock = NoTask
    /\ host' = "exited"
    /\ host_code' = child_code[t]
    /\ UNCHANGED <<calls, sessionVars, readerVars, written, childVars, created,
                   pc, arg, data, ret>>

\* let status = child.wait().unwrap(); exit(status.exit_code() as i32)
\* exit() ends the host process: no task takes a step any more (Alive).
WatcherExit(t) ==
    /\ Alive
    /\ watcher[t]
    /\ child[t] = "exited"
    /\ host' = "exited"
    /\ host_code' = child_code[t]
    /\ UNCHANGED <<calls, sessionVars, readerVars, written, childVars, created,
                   pc, arg, data, ret>>

(***************************************************************************)
(* async_write_to_pty                                                      *)
(***************************************************************************)
\* a lock() that does not wait for the holder to release the writer
WriteLockNoWait(t) ==
    /\ Alive
    /\ pc[t] = "wr_lock"
    /\ writer_lock' = t
    /\ Goto(t, "wr_write")
    /\ UNCHANGED <<calls, has_terminal, pty_lock, reader_lock, pty_size,
                   readerVars, written, childVars, hostVars, created>>

\* WriteLock that also waits for the reader's mutex to be free
WriteLockAfterReader(t) ==
    /\ Alive
    /\ pc[t] = "wr_lock"
    /\ writer_lock = NoTask
    /\ reader_lock = NoTask
    /\ writer_lock' = t
    /\ Goto(t, "wr_write")
    /\ UNCHANGED <<calls, has_terminal, pty_lock, reader_lock, pty_size,
                   readerVars, written, childVars, hostVars, created>>

\* state.writer.lock().await
WriteLock(t) ==
    /\ Alive
    /\ pc[t] = "wr_lock"
    /\ writer_lock = NoTask
    /\ writer_lock' = t
    /\ Goto(t, "wr_write")
    /\ UNCHANGED <<calls, has_terminal, pty_lock, reader_lock, pty_size,
                   readerVars, written, childVars, hostVars, created>>

\* write!(guard, "{}", data).map_err(|_| ()): write_all of the bytes of the
\* text as they are. write_all loops over write calls, each of which sends one
\* or more of the remaining bytes (one step of this action); on an I/O error
\* the command fails and the prefix already sent stays written. Chunks are
\* not empty.
\* The guard is a temporary: the lock is released when the statement ends.
\* (A full PTY buffer makes the write wait for the shell to read, never for a
\* lock; the model lets the kernel take the bytes.)
WriteAll(t) ==
    /\ Alive
    /\ pc[t] = "wr_write"
    /\ writer_lock = t
    /\ \/ \E k \in 1..(Len(arg[t]) - Len(data[t])) :
            LET sent == Len(data[t]) + k
            IN  /\ written' = written \o SubSeq(arg[t], Len(data[t]) + 1, sent)
                /\ IF sent = Len(arg[t])
                   THEN /\ writer_lock' = NoTask
                        /\ Return(t, "wr_ok")
                   ELSE /\ data' = [data EXCEPT ![t] = SubSeq(arg[t], 1, sent)]
                        /\ UNCHANGED <<writer_lock, pc, arg, ret>>
       \/ /\ writer_lock' = NoTask
          /\ Return(t, "wr_err")
          /\ UNCHANGED written
    /\ UNCHANGED <<calls, has_terminal, pty_lock, reader_lock, pty_size,
                   readerVars, childVars, hostVars, created>>

(***************************************************************************)
(* async_read_from_pty                                                     *)
(***************************************************************************)
\* a lock() that does not wait for the holder to release the reader
ReadLockNoWait(t) ==
    /\ Alive
    /\ pc[t] = "rd_lock"
    /\ reader_lock' = t
    /\ Goto(t, "rd_fill")
    /\ UNCHANGED <<calls, has_terminal, pty_lock, writer_lock, pty_size,
                   readerVars, written, childVars, hostVars, created>>

\* let mut reader = state.reader.lock().await
ReadLock(t) ==
    /\ Alive
    /\ pc[t] = "rd_lock"
    /\ reader_lock = NoTask
    /\ reader_lock' = t
    /\ Goto(t, "rd_fill")
    /\ UNCHANGED <<calls, has_terminal, pty_lock, writer_lock, pty_size,
                   readerVars, written, childVars, hostVars, created>>

\* the master side has hung up: a shell was spawned and has terminated
HungUp == \E u \in Tasks : child[u] = "exited"

\* a decoding whose error return leaves the reader locked
DecodeKeepLockOnError(t, avail) ==
    IF Len(avail) > 0
    THEN IF from_utf8(avail)
         THEN /\ data' = [data EXCEPT ![t] = avail]
              /\ pc' = [pc EXCEPT ![t] = "rd_consume"]
              /\ UNCHANGED <<ret, arg, reader_lock>>
         ELSE /\ reader_lock' = reader_lock
              /\ Return(t, "rd_err")
    ELSE /\ reader_lock' = NoTask
         /\ Return(t, "rd_none")

\* a decoding that, when the bytes are not valid UTF-8 as a whole, returns
\* their longest valid prefix as the text
DecodeValidPrefix(t, avail) ==
    LET valid == {k \in 0..Len(avail) : from_utf8(SubSeq(avail, 1, k))}
        upto == CHOOSE k \in valid : \A j \in valid : j <= k
    IN  IF Len(avail) > 0
        THEN IF upto > 0
             THEN /\ data' = [data EXCEPT ![t] = SubSeq(avail, 1, upto)]
                  /\ pc' = [pc EXCEPT ![t] = "rd_consume"]
                  /\ UNCHANGED <<ret, arg, reader_lock>>
             ELSE /\ reader_lock' = NoTask
                  /\ Return(t, "rd_err")
        ELSE /\ reader_lock' = NoTask
             /\ Return(t, "rd_none")

\* Decode with the bytes taken as text without the check (from_utf8_unchecked)
DecodeUnchecked(t, avail) ==
    IF Len(avail) > 0
    THEN /\ data' = [data EXCEPT ![t] = avail]
         /\ pc' = [pc EXCEPT ![t] = "rd_consume"]
         /\ UNCHANGED <<ret, arg, reader_lock>>
    ELSE /\ reader_lock' = NoTask
         /\ Return(t, "rd_none")

\* what the read does with the slice `avail` that fill_buf gave it:
\* if data.len() > 0 { from_utf8(data).map(|v| Some(v.to_string())).map_err(|_| ())? }
\* else { None }; a None skips the consume and is returned at once
Decode(t, avail) ==
    IF Len(avail) > 0
    THEN IF from_utf8(avail)
         THEN /\ data' = [data EXCEPT ![t] = avail]
              /\ pc' = [pc EXCEPT ![t] = "rd_consume"]
              /\ UNCHANGED <<ret, arg, reader_lock>>
         ELSE /\ reader_lock' = NoTask
              /\ Return(t, "rd_err")
    ELSE /\ reader_lock' = NoTask
         /\ Return(t, "rd_none")

\* a fill that reads the PTY master on every call, adding what is pending to
\* the bytes still buffered
FillBufAlways(t) ==
    /\ Alive
    /\ pc[t] = "rd_fill"
    /\ reader_lock = t
    /\ IF Buffered \o pending # <<>>
       THEN /\ rbuf' = Buffered \o pending
            /\ rpos' = 0
            /\ roff' = roff + rpos
            /\ pending' = <<>>
            /\ Decode(t, Buffered \o pending)
       ELSE /\ HungUp
            /\ \/ /\ rbuf' = <<>>
                  /\ rpos' = 0
                  /\ roff' = roff + Len(rbuf)
                  /\ Decode(t, <<>>)
                  /\ UNCHANGED pending
               \/ /\ reader_lock' = NoTask
                  /\ Return(t, "rd_err")
                  /\ UNCHANGED <<rbuf, rpos, roff, pending>>
    /\ UNCHANGED <<calls, has_terminal, pty_lock, writer_lock, pty_size,
                   produced, stream, delivered, written, childVars, hostVars, created>>

\* reader.fill_buf().map_err(|_| ())?  BufReader reads from the PTY master
\* only when its buffer holds no unconsumed byte, and the read of the master
\* is a blocking one: with no output pending it returns only once the master
\* has hung up (end of file or an I/O error, as the platform has it).
FillBuf(t) ==
    /\ Alive
    /\ pc[t] = "rd_fill"
    /\ reader_lock = t
    /\ IF rpos < Len(rbuf)
       THEN /\ Decode(t, Buffered)
            /\ UNCHANGED <<rbuf, rpos, roff, pending>>
       ELSE IF pending # <<>>
       THEN LET n == Min(Len(pending), BufCap)
            IN  /\ rbuf' = SubSeq(pending, 1, n)
                /\ rpos' = 0
                /\ roff' = roff + Len(rbuf)
                /\ pending' = SubSeq(pending, n + 1, Len(pending))
                /\ Decode(t, SubSeq(pending, 1, n))
       ELSE /\ HungUp
            /\ \/ /\ rbuf' = <<>>
                  /\ rpos' = 0
                  /\ roff' = roff + Len(rbuf)
                  /\ Decode(t, <<>>)
                  /\ UNCHANGED pending
               \/ /\ reader_lock' = NoTask
                  /\ Return(t, "rd_err")
                  /\ UNCHANGED <<rbuf, rpos, roff, pending>>
    /\ UNCHANGED <<calls, has_terminal, pty_lock, writer_lock, pty_size,
                   produced, stream, delivered, written, childVars, hostVars, created>>

\* the bytes of the text with the stream offsets they were read at
Tagged(s, from) == [i \in 1..Len(s) |-> <<from + i, s[i]>>]

\* reader.consume(data.len()); Ok(data)
ConsumeReturn(t) ==
    /\ Alive
    /\ pc[t] = "rd_consume"
    /\ reader_lock = t
    /\ rpos' = Consume(Len(data[t]))
    /\ delivered' = delivered \o Tagged(data[t], roff + rpos)
    /\ reader_lock' = NoTask
    /\ Return(t, "rd_some")
    /\ UNCHANGED <<calls, has_terminal, pty_lock, writer_lock, pty_size,
                   rbuf, roff, pending, produced, stream, written, childVars, hostVars, created>>

(***************************************************************************)
(* async_resize_pty                                                        *)
(***************************************************************************)
\* state.pty_pair.lock().await
ResizeLock(t) ==
    /\ Alive
    /\ pc[t] = "rs_lock"
    /\ pty_lock = NoTask
    /\ pty_lock' = t
    /\ Goto(t, "rs_resize")
    /\ UNCHANGED <<calls, has_terminal, writer_lock, reader_lock, pty_size,
                   readerVars, written, childVars, hostVars, created>>

\* a resize that gives the master the two numbers the wrong way round
ResizeSwapped(t) ==
    /\ Alive
    /\ pc[t] = "rs_resize"
    /\ pty_lock = t
    /\ pty_lock' = NoTask
    /\ \/ /\ pty_size' = <<arg[t][2], arg[t][1]>>
          /\ Return(t, "rs_ok")
       \/ /\ pty_size' = pty_size
          /\ Return(t, "rs_err")
    /\ UNCHANGED <<calls, has_terminal, writer_lock, reader_lock,
                   readerVars, written, childVars, hostVars, created>>

\* a resize whose failure ends the process instead of being returned
ResizeOrDie(t) ==
    /\ Alive
    /\ pc[t] = "rs_resize"
    /\ pty_lock = t
    /\ pty_lock' = NoTask
    /\ \/ /\ pty_size' = arg[t]
          /\ Return(t, "rs_ok")
          /\ UNCHANGED hostVars
       \/ /\ pty_size' = pty_size
          /\ Return(t, "rs_err")
          /\ host' = "exited"
          /\ host_code' = 101
    /\ UNCHANGED <<calls, has_terminal, writer_lock, reader_lock,
                   readerVars, written, childVars, created>>

\* .master.resize(PtySize { rows, cols, ..Default::default() }).map_err(|_| ())
Resize(t) ==
    /\ Alive
    /\ pc[t] = "rs_resize"
    /\ pty_lock = t
    /\ pty_lock' = NoTask
    /\ \/ /\ pty_size' = arg[t]
          /\ Return(t, "rs_ok")
       \/ /\ pty_size' = pty_size
          /\ Return(t, "rs_err")
    /\ UNCHANGED <<calls, has_terminal, writer_lock, reader_lock,
                   readerVars, written, childVars, hostVars, created>>

(***************************************************************************)
(* The PTY emits a byte of output on the master side (output of the shell, *)
(* or the echo of the line discipline).                                    *)
(***************************************************************************)
PtyOutput ==
    /\ Alive
    /\ produced < MaxOut
    /\ \E b \in OutBytes :
        /\ pending' = Append(pending, b)
        /\ stream' = Append(stream, b)
    /\ produced' = produced + 1
    /\ UNCHANGED <<calls, sessionVars, rbuf, rpos, roff, delivered, written,
                   childVars, hostVars, created, pc, arg, data, ret>>

(***************************************************************************)
(* Specifications                                                          *)
(***************************************************************************)
\* the steps of the command task t is running
TaskStep(t) ==
    \/ CreateCheck(t)
    \/ CreateLock(t)
    \/ CreateSpawn(t)
    \/ CreateStore(t)
    \/ WriteLock(t)
    \/ WriteAll(t)
    \/ ReadLock(t)
    \/ FillBuf(t)
    \/ ConsumeReturn(t)
    \/ ResizeLock(t)
    \/ Resize(t)

Next ==
    \/ \E t \in Tasks : InvokeCreateShell(t)
    \/ \E t \in Tasks : InvokeWrite(t)
    \/ \E t \in Tasks : InvokeRead(t)
    \/ \E t \in Tasks : InvokeResize(t)
    \/ \E t \in Tasks : CreateCheck(t)
    \/ \E t \in Tasks : CreateLock(t)
    \/ \E t \in Tasks : CreateSpawn(t)
    \/ \E t \in Tasks : CreateStore(t)
    \/ \E t \in Tasks : WriteLock(t)
    \/ \E t \in Tasks : WriteAll(t)
    \/ \E t \in Tasks : ReadLock(t)
    \/ \E t \in Tasks : FillBuf(t)
    \/ \E t \in Tasks : ConsumeReturn(t)
    \/ \E t \in Tasks : ResizeLock(t)
    \/ \E t \in Tasks : Resize(t)
    \/ \E t \in Tasks : ChildExit(t)
    \/ \E t \in Tasks : WatcherExit(t)
    \/ PtyOutput

Spec == Init /\ [][Next]_vars

\* the async runtime runs every task that can take a step, and the watcher
\* thread runs; the presentation layer, the shell and the PTY owe nothing
FairSpec ==
    /\ Spec
    /\ \A t \in Tasks : WF_vars(TaskStep(t))
    /\ \A t \in Tasks : WF_vars(WatcherExit(t))

\* the presentation layer polls: task t, idle, invokes read-from-pty again,
\* as often as it likes
Poll(t) ==
    /\ Alive
    /\ pc[t] = "idle"
    /\ pc' = [pc EXCEPT ![t] = "rd_lock"]
    /\ arg' = [arg EXCEPT ![t] = <<>>]
    /\ ret' = [ret EXCEPT ![t] = "none"]
    /\ UNCHANGED <<calls, data, sessionVars, readerVars, written, childVars, hostVars, created>>

PollNext ==
    \/ Next
    \/ \E t \in Tasks : Poll(t)

\* the program with callers that keep polling read-from-pty: every task that
\* can take a step is run, the watcher thread runs, and an idle caller polls
PollSpec ==
    /\ Init
    /\ [][PollNext]_vars
    /\ \A t \in Tasks : WF_vars(TaskStep(t))
    /\ \A t \in Tasks : WF_vars(WatcherExit(t))
    /\ \A t \in Tasks : WF_vars(Poll(t))

(***************************************************************************)
(* Claims                                                                  *)
(***************************************************************************)
\* the step in which task t's command returns
Returns(t) == pc[t] # "idle" /\ pc'[t] = "idle"

\* C1: whatever the interleaving of create-shell calls, at most one shell
\* process is ever spawned: the number of successful spawns is at most 1.
C1_AtMostOneSpawn == spawned <= 1

\* C2: once a create-shell call has returned success, a create-shell call
\* that then runs its check returns success at once: it spawns nothing,
\* starts no watcher, takes no lock and leaves the session state as it was.
C2_IdempotentInSequence ==
    [][\A t \in Tasks :
         (created /\ pc[t] = "cs_check" /\ pc'[t] # "cs_check")
         => /\ pc'[t] = "idle"
            /\ ret'[t] = "cs_ok"
            /\ UNCHANGED <<has_terminal, pty_lock, writer_lock, reader_lock, pty_size>>
            /\ UNCHANGED <<child, child_code, watcher, spawned>>]_vars

\* C2 witness: one caller has made two create-shell calls in sequence, the
\* first spawned the shell, the second has returned success, and one shell
\* was spawned in all.
C2_Witness ==
    \E t \in Tasks :
        /\ calls = 2
        /\ pc[t] = "idle"
        /\ ret[t] = "cs_ok"
        /\ child[t] # "none"
        /\ spawned = 1
        /\ \A u \in Tasks \ {t} : pc[u] = "idle" /\ ret[u] = "none"

\* C3: when a create-shell call fails (resolution or spawn), it returns an
\* error, hasShell is false after it, it has created no child and no
\* watcher, and it does not hold the PTY-pair lock, so that a later call is
\* not short-circuited.
C3_FailureLeavesFlagFalse ==
    [][\A t \in Tasks :
         (Returns(t) /\ ret'[t] \in {"cs_err_shell", "cs_err_spawn"})
         => /\ has_terminal' = FALSE
            /\ pty_lock' # t
            /\ UNCHANGED <<child, child_code, watcher, spawned>>]_vars

\* C4: hasShell is true only if a spawn on the PTY slave has succeeded, and
\* once true it is never false again.
C4_FlagOnlyAfterSpawn ==
    [][/\ has_terminal => spawned >= 1
       /\ has_terminal' => spawned' >= 1
       /\ has_terminal => has_terminal']_vars

\* C4 witness: the flag is set, after a spawn
C4_Witness == has_terminal /\ spawned >= 1 /\ \E t \in Tasks : child[t] = "running"

\* C5: a read-from-pty call that finds BufReader's buffer empty and no output
\* pending on the PTY master does not wait: it can return at once, with the
\* 'no data' result and the reader lock released.
C5_ReadNeverWaits ==
    \A t \in Tasks :
        (Alive /\ pc[t] = "rd_fill" /\ rpos >= Len(rbuf) /\ pending = <<>>)
        => ENABLED (FillBuf(t) /\ ret'[t] = "rd_none" /\ reader_lock' = NoTask)

\* the stream offsets of the bytes returned so far
DeliveredAt == [i \in 1..Len(delivered) |-> delivered[i][1]]
\* the bytes returned so far
DeliveredBytes == [i \in 1..Len(delivered) |-> delivered[i][2]]

\* C6: no byte of the PTY's output is returned by more than one read, and
\* the bytes consumed from the reader are exactly the bytes returned.
C6_NoDoubleDelivery ==
    /\ \A i, j \in 1..Len(delivered) : i # j => DeliveredAt[i] # DeliveredAt[j]
    /\ roff + rpos = Len(delivered)

\* C6 witness: two reads have each returned a non-empty chunk, the second
\* from a buffer filled after the first chunk was consumed
C6_Witness ==
    /\ roff >= 1
    /\ rpos >= 1
    /\ Len(delivered) = roff + rpos
    /\ \E t \in Tasks : pc[t] = "idle" /\ ret[t] = "rd_some"

\* C7: a read whose available bytes are not valid UTF-8 returns an error,
\* returns no text and leaves the bytes in the reader, none consumed and
\* none dropped; and the text a read returns is never empty and is always
\* valid UTF-8 (no partial code point).
C7_DecodeErrorKeepsBytes ==
    [][\A t \in Tasks :
         /\ (pc[t] = "rd_fill" /\ pc'[t] # "rd_fill"
                /\ Buffered' # <<>> /\ ~from_utf8(Buffered'))
            => /\ pc'[t] = "idle"
               /\ ret'[t] = "rd_err"
               /\ reader_lock' = NoTask
               /\ delivered' = delivered
               /\ roff' + rpos' = roff + rpos
               /\ Buffered' \o pending' = Buffered \o pending
         /\ (Returns(t) /\ ret'[t] = "rd_some")
            => /\ Len(delivered') > Len(delivered)
               /\ from_utf8(SubSeq(DeliveredBytes', Len(delivered) + 1, Len(delivered')))]_vars

\* C7 witness: a read has failed on the lone first byte of a two-byte
\* character, which is still in the reader's buffer
C7_Witness ==
    /\ \E t \in Tasks : pc[t] = "idle" /\ ret[t] = "rd_err"
    /\ Buffered = <<195>>
    /\ delivered = <<>>

\* C8: when the reader holds the first byte(s) of a multi-byte character on
\* which a read has failed, and the rest of the character has arrived on the
\* PTY, the next read succeeds and returns the complete character.
C8_DecodeErrorRecovers ==
    [][\A t \in Tasks :
         (/\ pc[t] = "rd_fill" /\ pc'[t] # "rd_fill"
          /\ Buffered # <<>>
          /\ ~from_utf8(Buffered)
          /\ pending # <<>>
          /\ from_utf8(Buffered \o pending))
         => /\ pc'[t] = "rd_consume"
            /\ data'[t] = Buffered \o pending]_vars

\* the locks task t holds
Held(t) ==
    {l \in {"pty", "writer", "reader"} :
        \/ l = "pty" /\ pty_lock = t
        \/ l = "writer" /\ writer_lock = t
        \/ l = "reader" /\ reader_lock = t}

\* task t's command is waiting for a lock
Waiting(t) == pc[t] \in {"cs_lock", "wr_lock", "rd_lock", "rs_lock"}

\* C9: a write-to-pty call holds and waits for the writer lock only, a
\* read-from-pty call the reader lock only: a write can take the writer lock
\* whenever it is free and then finish, a read can take the reader lock
\* whenever it is free and then go on with the bytes that are there, whatever
\* the state of the other's lock.
C9_LockIndependence ==
    \A t \in Tasks :
        /\ pc[t] \in {"wr_lock", "wr_write"} => Held(t) \subseteq {"writer"}
        /\ pc[t] \in {"rd_lock", "rd_fill", "rd_consume"} => Held(t) \subseteq {"reader"}
        /\ (Alive /\ pc[t] = "wr_lock" /\ writer_lock = NoTask) => ENABLED WriteLock(t)
        /\ (Alive /\ pc[t] = "wr_write") => ENABLED WriteAll(t)
        /\ (Alive /\ pc[t] = "rd_lock" /\ reader_lock = NoTask) => ENABLED ReadLock(t)
        /\ (Alive /\ pc[t] = "rd_fill" /\ Buffered \o pending # <<>>) => ENABLED FillBuf(t)
        /\ (Alive /\ pc[t] = "rd_consume") => ENABLED ConsumeReturn(t)

\* C9 witness: a write and a read are in flight together, each holding its
\* own lock
C9_Witness ==
    \E t, u \in Tasks :
        /\ pc[t] = "wr_write" /\ writer_lock = t
        /\ pc[u] = "rd_fill" /\ reader_lock = u

\* C10: every command in flight holds at most one of the three locks and
\* holds none while it waits for one, so no task waits for a lock whose
\* holder is itself waiting.
C10_AtMostOneLock ==
    \A t \in Tasks :
        /\ Cardinality(Held(t)) <= 1
        /\ Waiting(t) => Held(t) = {}

\* C10 witness: one command holds the PTY-pair lock while another waits for
\* it
C10_Witness ==
    \E t, u \in Tasks :
        /\ t # u
        /\ Held(t) = {"pty"}
        /\ pc[u] \in {"cs_lock", "rs_lock"}

\* task t's command is inside the section of the writer, of the reader, of
\* the PTY pair
InWriter(t) == pc[t] = "wr_write"
InReader(t) == pc[t] \in {"rd_fill", "rd_consume"}
InPtyPair(t) == pc[t] \in {"cs_spawn", "rs_resize"}

\* C11: whatever the interleaving, at most one write-to-pty call is writing
\* to the PTY master, at most one read-from-pty call is inspecting or
\* consuming the reader's buffer, and at most one resize-pty or create-shell
\* call is using the PTY pair; the call that does is the holder of the lock.
C11_MutualExclusion ==
    \A t \in Tasks :
        /\ InWriter(t) => (writer_lock = t /\ \A u \in Tasks \ {t} : ~InWriter(u))
        /\ InReader(t) => (reader_lock = t /\ \A u \in Tasks \ {t} : ~InReader(u))
        /\ InPtyPair(t) => (pty_lock = t /\ \A u \in Tasks \ {t} : ~InPtyPair(u))

\* C11 witness: one read is inside the reader while another read waits for
\* the reader's lock
C11_Witness ==
    \E t, u \in Tasks :
        /\ Alive
        /\ pc[t] = "rd_fill"
        /\ reader_lock = t
        /\ pc[u] = "rd_lock"

\* C12: when a spawned shell has terminated with exit code c, the host
\* process eventually terminates, with exit code exactly c; a shell that has
\* exited never counts as running or as not spawned again.
C12_ExitCodePropagates ==
    /\ \A t \in Tasks : \A c \in ExitCodes :
         (child[t] = "exited" /\ child_code[t] = c)
         ~> (host = "exited" /\ host_code = c)
    /\ [][\A t \in Tasks : child[t] = "exited" => child'[t] = "exited"]_vars

\* the results with which a command reports a failure to its caller
Failures == {"cs_err_shell", "cs_err_spawn", "wr_err", "rd_err", "rs_err"}

\* C13: the host process is terminated only if a spawned shell has exited;
\* a create-shell, write, read or resize call that fails returns its failure
\* to the caller and the host keeps running.
C13_OnlyShellExitIsFatal ==
    [][/\ host' = "exited" => \E t \in Tasks : child'[t] = "exited" /\ watcher'[t]
       /\ \A t \in Tasks :
            (Returns(t) /\ ret'[t] \in Failures) => (host = "running" /\ host' = "running")]_vars

\* C13 witness: a command has failed, and the host was terminated after it,
\* by the exit of the shell
C13_Witness ==
    /\ host = "exited"
    /\ \E t \in Tasks : child[t] = "exited" /\ watcher[t] /\ host_code = child_code[t]
    /\ \E u \in Tasks : pc[u] = "idle" /\ ret[u] \in Failures

\* C14: the size of the PTY is 24 x 80 until a resize-pty call succeeds, a
\* resize-pty call that returns success leaves it at exactly the (rows, cols)
\* it was given, nothing else changes it, and a resize-pty call that fails
\* leaves the size and all the other session state as they were: so the size
\* is always that of the most recent successful resize-pty call.
C14_ResizePropagation ==
    [][/\ calls = 0 => pty_size = <<InitRows, InitCols>>
       /\ \A t \in Tasks :
            (Returns(t) /\ ret'[t] = "rs_ok") => pty_size' = arg[t]
       /\ \A t \in Tasks :
            (Returns(t) /\ ret'[t] = "rs_err")
            => /\ UNCHANGED <<pty_size, has_terminal, writer_lock, reader_lock>>
               /\ UNCHANGED <<readerVars, written, childVars, hostVars>>
       /\ (\A t \in Tasks : ~(Returns(t) /\ ret'[t] = "rs_ok")) => pty_size' = pty_size]_vars

\* C14 witness: a caller's second command, a resize-pty to 40 x 120, has
\* returned success and the PTY has that size
C14_Witness ==
    \E t \in Tasks :
        /\ calls = 2
        /\ pty_size = <<40, 120>>
        /\ pc[t] = "idle"
        /\ ret[t] = "rs_ok"
        /\ \A u \in Tasks \ {t} : pc[u] = "idle" /\ ret[u] = "none"

C16_RoundTrip ==
    []((created /\ stream = <<>>)
       => []((Len(stream) = MaxOut /\ from_utf8(stream))
             => <>(DeliveredBytes = stream \/ ~Alive)))

\* the last n elements of s
LastOf(s, n) == SubSeq(s, Len(s) - n + 1, Len(s))

\* C17: the PTY master receives the chunks of the write-to-pty calls whole,
\* unmodified and one after the other in the order in which the calls took
\* the writer lock: the bytes a call in progress has sent are the end of the
\* stream (no other call's bytes among them or after them), a call that
\* returns success has just completed its chunk at the end of the stream, and
\* the stream changes only by the lock holder appending the next bytes of
\* its chunk.
C17_WritesWholeInOrder ==
    [][/\ \A t \in Tasks :
            pc[t] = "wr_write"
            => /\ Len(data[t]) <= Len(written)
               /\ LastOf(written, Len(data[t])) = data[t]
               /\ data[t] = SubSeq(arg[t], 1, Len(data[t]))
       /\ \A t \in Tasks :
            (Returns(t) /\ ret'[t] = "wr_ok")
            => /\ Len(arg[t]) <= Len(written')
               /\ LastOf(written', Len(arg[t])) = arg[t]
               /\ written' = written \o SubSeq(arg[t], Len(data[t]) + 1, Len(arg[t]))
       /\ written' # written
          => \E t \in Tasks :
                /\ pc[t] = "wr_write"
                /\ writer_lock = t
                /\ \E k \in 1..Len(arg[t]) :
                     written' = written \o SubSeq(arg[t], Len(data[t]) + 1, k)]_vars

\* C17 witness: two write-to-pty calls have both succeeded and the PTY master
\* has received "h\n" twice, one chunk after the other
C17_Witness ==
    /\ calls = 2
    /\ \A t \in Tasks : pc[t] = "idle" /\ ret[t] = "wr_ok"
    /\ written = <<104, 10, 104, 10>>

IsPrefix(s, w) == Len(s) <= Len(w) /\ s = SubSeq(w, 1, Len(s))

\* the number of bytes of the PTY's output consumed from the reader so far
Consumed == roff + rpos

\* C18: a read that returns text returns all the bytes the reader's buffer
\* holds, as one chunk, and consumes exactly those, which leaves the buffer
\* empty; any other step, a read that returns 'no data' or fails included,
\* consumes nothing and delivers nothing: no read returns only a valid prefix
\* of the buffer. So the chunks returned so far, one after the other, are
\* always a prefix of the bytes the PTY has produced.
C18_ReadAllOrNothing ==
    [][/\ \A t \in Tasks :
            (Returns(t) /\ ret'[t] = "rd_some")
            => /\ data[t] = Buffered
               /\ Buffered' = <<>>
               /\ Consumed' = Consumed + Len(data[t])
               /\ DeliveredBytes' = DeliveredBytes \o data[t]
       /\ (\A t \in Tasks : ~(Returns(t) /\ ret'[t] = "rd_some"))
          => (Consumed' = Consumed /\ delivered' = delivered)
       /\ IsPrefix(DeliveredBytes, stream)
       /\ IsPrefix(DeliveredBytes', stream')]_vars

\* C18 witness: a read has returned the two bytes of U+00E9, all that was
\* buffered, as one chunk, and the buffer is empty
C18_Witness ==
    \E t \in Tasks :
        /\ pc[t] = "idle"
        /\ ret[t] = "rd_some"
        /\ DeliveredBytes = <<195, 169>>
        /\ rbuf = <<195, 169>>
        /\ Buffered = <<>>

\* C19: a command that returns, with success or with a failure, holds no
\* lock: a task that is not running a command holds none of the three locks,
\* and when no command is in flight all three are free.
C19_LocksReleasedOnReturn ==
    /\ \A t \in Tasks :
         pc[t] = "idle" => (pty_lock # t /\ writer_lock # t /\ reader_lock # t)
    /\ (\A t \in Tasks : pc[t] = "idle")
       => (pty_lock = NoTask /\ writer_lock = NoTask /\ reader_lock = NoTask)

\* C19 witness: a read has failed and returned, and a later read of another
\* caller has taken the reader lock
C19_Witness ==
    \E t, u \in Tasks :
        /\ Alive
        /\ pc[t] = "idle"
        /\ ret[t] = "rd_err"
        /\ pc[u] = "rd_fill"
        /\ reader_lock = u

\* C20: a read takes bytes from the PTY master only when the reader's buffer
\* is empty: output leaves the master only in the fill of a read that found
\* the buffer empty, and a read that finds bytes in the buffer decodes exactly
\* those (it returns them if they are valid UTF-8 and fails if not) and
\* leaves the buffer and the output pending on the master as they were.
C20_FetchOnlyWhenEmpty ==
    [][/\ \A t \in Tasks :
            (pc[t] = "rd_fill" /\ pc'[t] # "rd_fill" /\ Buffered # <<>>)
            => /\ UNCHANGED <<rbuf, rpos, roff, pending>>
               /\ IF from_utf8(Buffered)
                  THEN pc'[t] = "rd_consume" /\ data'[t] = Buffered
                  ELSE pc'[t] = "idle" /\ ret'[t] = "rd_err"
       /\ (pending' # pending /\ Len(pending') <= Len(pending))
          => \E t \in Tasks :
                /\ pc[t] = "rd_fill"
                /\ pc'[t] # "rd_fill"
                /\ reader_lock = t
                /\ Buffered = <<>>]_vars

\* C20 witness: two reads have failed on the same buffered byte, the second
\* of them having found it in the buffer, and the byte that completes the
\* character is still pending on the master
C20_Witness ==
    /\ calls = 2
    /\ \A t \in Tasks : pc[t] = "idle" /\ ret[t] = "rd_err"
    /\ rbuf = <<195>>
    /\ rpos = 0
    /\ pending = <<169>>

====
